---- MODULE Spec2Model ----
(***************************************************************************)
(* Model of drymail (src/drymail.py): the Message preparation state        *)
(* machine and the SMTPMailer connection lifecycle.                        *)
(*                                                                         *)
(* Python values are encoded as follows.                                   *)
(*   - an optional value is a sequence of length <= 1: None is <<>> and a  *)
(*     supplied value v is <<v>>;                                          *)
(*   - an address is <<"str", email>> (a bare string) or                   *)
(*     <<"tuple", name, email>>; a list of addresses is <<"list", seq>>;   *)
(*   - the MIME document self.message is a record [headers, parts], the    *)
(*     headers a sequence of <<key, value>> pairs in insertion order and   *)
(*     the parts a sequence of 3-tuples of strings (see BodyPart and       *)
(*     AttachmentPart);                                                    *)
(*   - an smtplib session object is its index in the sequence sessions,    *)
(*     and self.client = None is NoClient.                                 *)
(***************************************************************************)
EXTENDS Integers, Sequences, FiniteSets, TLC

VARIABLES
    \* ---- SMTPMailer fields
    ssl, tls, port, user, password, connected, client,
    \* ---- the port argument SMTPMailer.__init__ was called with
    portArg,
    \* ---- the smtplib sessions this mailer has opened: "open" or "closed"
    sessions,
    \* ---- Message fields
    subject, sender, receivers, authors, cc, bcc, headers, reply_to,
    text, html, attachments, prepared_message, prepared, message,
    \* ---- the caller: inside a `with mailer:` block or not
    scope,
    \* ---- the last call made by the caller and what it did
    last

mailerVars == <<ssl, tls, port, portArg, user, password, connected, client>>
configVars == <<ssl, tls, port, portArg, user, password>>
fieldVars == <<subject, sender, receivers, authors, cc, bcc, headers, reply_to,
               prepared_message>>
messageVars == <<subject, sender, receivers, authors, cc, bcc, headers, reply_to,
                 text, html, attachments, prepared_message, prepared, message>>
vars == <<mailerVars, sessions, messageVars, scope, last>>

----------------------------------------------------------------------------
(* Bounds of the model *)

\* the number of smtplib sessions one behaviour may open
MaxSessions == 2
\* the number of child parts the document may hold before attach()/prepare()
\* are no longer explored
MaxParts == 3

----------------------------------------------------------------------------
(* Python values *)

None == <<>>
Some(v) == <<v>>

\* Python truthiness of an optional string / bytes value
TruthyStr(o) == o # None /\ o[1] # ""
\* Python truthiness of an optional list or dict (a sequence here)
TruthySeq(o) == o # None /\ o[1] # <<>>
\* `x or default` for an optional string
OrStr(o, default) == IF TruthyStr(o) THEN o[1] ELSE default

\* self.client = None
NoClient == 0

----------------------------------------------------------------------------
(* Address Normalizer *)

\* email.utils.formataddr for ASCII names: the name is quoted only when it
\* holds one of the RFC 5322 specials
HasSpecials(name) == name \in {"Doe, J"}

formataddr(name, email) ==
    IF name = "" THEN email
    ELSE IF HasSpecials(name) THEN "\"" \o name \o "\" <" \o email \o ">"
    ELSE name \o " <" \o email \o ">"

stringify_address(address) ==
    LET pair == IF address[1] = "str" THEN <<"", address[2]>>
                ELSE <<address[2], address[3]>>
    IN formataddr(pair[1], pair[2])

RECURSIVE JoinComma(_)
JoinComma(strs) ==
    IF strs = <<>> THEN ""
    ELSE IF Len(strs) = 1 THEN strs[1]
    ELSE strs[1] \o ", " \o JoinComma(Tail(strs))

stringify_addresses(addresses) ==
    IF addresses[1] = "list"
    THEN JoinComma([i \in 1..Len(addresses[2]) |-> stringify_address(addresses[2][i])])
    ELSE stringify_address(addresses)

----------------------------------------------------------------------------
(* Message *)

\* MIMEMultipart('mixed'): the document a Message is constructed with
NewMixed ==
    [headers |-> << <<"Content-Type", "multipart/mixed">>, <<"MIME-Version", "1.0">> >>,
     parts |-> <<>>]

\* email.message_from_bytes on the override bytes
message_from_bytes(raw) ==
    [headers |-> << <<"X-Raw", raw>> >>, parts |-> <<>>]

\* BeautifulSoup(html, 'html.parser').get_text(strip=True)
get_text(h) ==
    CASE h = "<p>Hi</p>" -> "Hi"
      [] h = "<br>" -> ""
      [] OTHER -> h

\* mistune.markdown(text)
markdown(t) == IF t = "" THEN "" ELSE "<p>" \o t \o "</p>\n"

\* mimetypes.guess_type(filename): <<type, encoding>>, both optional
guess_type(filename) ==
    CASE filename = "report.pdf" -> <<Some("application/pdf"), None>>
      [] filename = "a.tar.gz" -> <<Some("application/x-tar"), Some("gzip")>>
      [] OTHER -> <<None, None>>

\* the multipart/alternative part of prepare(): plaintext child, then html child
BodyPart(t, h) == <<"multipart/alternative", t, h>>
IsBody(part) == part[1] = "multipart/alternative"

\* a MIMEBase part with base64 payload and Content-Disposition: attachment
AttachmentPart(mimetype, data, filename) == <<mimetype, "base64:" \o data, filename>>
PartFilename(part) == part[3]

\* Message[key] = value appends a header (email.message.Message.__setitem__)
SetItem(doc, key, value) ==
    [doc EXCEPT !.headers = Append(@, <<key, value>>)]

RECURSIVE SetItems(_, _)
SetItems(doc, kvs) ==
    IF kvs = <<>> THEN doc
    ELSE SetItems(SetItem(doc, kvs[1][1], kvs[1][2]), Tail(kvs))

\* Message.attach (the payload list of the document)
DocAttach(doc, part) == [doc EXCEPT !.parts = Append(@, part)]


\* the value of `mimetype` after lines 298-301 of attach()
ResolveMimetype(mimetype, filename) ==
    IF TruthyStr(mimetype) THEN mimetype[1]
    ELSE LET g == guess_type(filename)
         IN IF g[1] = None \/ g[2] # None THEN "application/octet-stream"
            ELSE g[1][1]

\* attach() that records the filename at the front of self.__attachments
attach_Prepend(data, filename, mimetype) ==
    IF TruthyStr(prepared_message)
    THEN [message |-> message, attachments |-> attachments]
    ELSE [message |-> DocAttach(message,
                         AttachmentPart(ResolveMimetype(mimetype, filename), data, filename)),
          attachments |-> <<filename>> \o attachments]

\* attach() without the early return of lines 295-296
attach_NoGuard(data, filename, mimetype) ==
    [message |-> DocAttach(message,
                    AttachmentPart(ResolveMimetype(mimetype, filename), data, filename)),
     attachments |-> Append(attachments, filename)]

\* Message.attach: the new values of self.message and self.__attachments
attach(data, filename, mimetype) ==
    IF TruthyStr(prepared_message)
    THEN [message |-> message, attachments |-> attachments]
    ELSE [message |-> DocAttach(message,
                         AttachmentPart(ResolveMimetype(mimetype, filename), data, filename)),
          attachments |-> Append(attachments, filename)]

\* the From header of prepare()
FromHeader ==
    IF TruthySeq(authors) THEN stringify_addresses(<<"list", authors[1]>>)
    ELSE stringify_address(sender)

\* the optional headers set whenever the field is not None
OptionalHeaders_NotNone ==
    (IF cc # None THEN << <<"CC", stringify_addresses(<<"list", cc[1]>>)>> >> ELSE <<>>)
    \o (IF bcc # None THEN << <<"BCC", stringify_addresses(<<"list", bcc[1]>>)>> >> ELSE <<>>)
    \o (IF reply_to # None
        THEN << <<"Reply-To", stringify_addresses(<<"list", reply_to[1]>>)>> >> ELSE <<>>)
    \o (IF headers # None THEN headers[1] ELSE <<>>)

\* the optional headers of prepare(), lines 326-334, in the order they are set
OptionalHeaders ==
    (IF TruthySeq(cc) THEN << <<"CC", stringify_addresses(<<"list", cc[1]>>)>> >> ELSE <<>>)
    \o (IF TruthySeq(bcc) THEN << <<"BCC", stringify_addresses(<<"list", bcc[1]>>)>> >> ELSE <<>>)
    \o (IF TruthySeq(reply_to)
        THEN << <<"Reply-To", stringify_addresses(<<"list", reply_to[1]>>)>> >> ELSE <<>>)
    \o (IF TruthySeq(headers) THEN headers[1] ELSE <<>>)

\* prepare() without the return of line 317: the normal path runs on the
\* deserialized override
prepare_NoReturn ==
    LET doc == IF TruthyStr(prepared_message)
               THEN message_from_bytes(prepared_message[1]) ELSE message
        t == IF text # "" THEN text ELSE get_text(html)
        h == IF html # "" THEN html ELSE markdown(t)
        withHeaders ==
            SetItems(doc,
                << <<"Sender", stringify_address(sender)>>,
                   <<"From", FromHeader>>,
                   <<"To", stringify_addresses(receivers)>>,
                   <<"Subject", subject>> >> \o OptionalHeaders)
    IN [text |-> t, html |-> h,
        message |-> DocAttach(withHeaders, BodyPart(t, h)),
        prepared |-> TRUE]

\* prepare() taking the text from html whenever html is given
prepare_HtmlFirst ==
    IF TruthyStr(prepared_message)
    THEN [text |-> text, html |-> html,
          message |-> message_from_bytes(prepared_message[1]), prepared |-> TRUE]
    ELSE LET t == IF html # "" THEN get_text(html) ELSE text
             h == IF html # "" THEN html ELSE markdown(t)
             withHeaders ==
                 SetItems(message,
                     << <<"Sender", stringify_address(sender)>>,
                        <<"From", FromHeader>>,
                        <<"To", stringify_addresses(receivers)>>,
                        <<"Subject", subject>> >> \o OptionalHeaders)
         IN [text |-> t, html |-> h,
             message |-> DocAttach(withHeaders, BodyPart(t, h)),
             prepared |-> TRUE]

\* Message.prepare: the new values of text, html, message and prepared
prepare ==
    IF TruthyStr(prepared_message)
    THEN [text |-> text, html |-> html,
          message |-> message_from_bytes(prepared_message[1]), prepared |-> TRUE]
    ELSE LET t == IF text # "" THEN text ELSE get_text(html)
             h == IF html # "" THEN html ELSE markdown(t)
             withHeaders ==
                 SetItems(message,
                     << <<"Sender", stringify_address(sender)>>,
                        <<"From", FromHeader>>,
                        <<"To", stringify_addresses(receivers)>>,
                        <<"Subject", subject>> >> \o OptionalHeaders)
         IN [text |-> t, html |-> h,
             message |-> DocAttach(withHeaders, BodyPart(t, h)),
             prepared |-> TRUE]

----------------------------------------------------------------------------
(* smtplib sessions *)

NoError == ""

\* how one command on a session can end: it succeeds, the server has gone
\* (SMTPServerDisconnected, the socket is closed), or the server answers with
\* an error and the session stays open or is closed by smtplib
Outcomes == {"ok", "disconnected", "error_open", "error_closed"}

ErrorOf(outcome) ==
    CASE outcome = "ok" -> NoError
      [] outcome = "disconnected" -> "SMTPServerDisconnected"
      [] OTHER -> "SMTPResponseException"

\* a command on a closed session can only raise SMTPServerDisconnected
Possible(m, outcome) ==
    m.client # NoClient /\ m.sessions[m.client] = "closed" => outcome = "disconnected"

SessionAfter(outcome) ==
    IF outcome \in {"disconnected", "error_closed"} THEN "closed" ELSE "open"

\* the mailer state the methods read and write
Mailer == [connected |-> connected, client |-> client, sessions |-> sessions]


----------------------------------------------------------------------------
(* SMTPMailer *)

\* __init__ with the defaults of the two TLS modes exchanged
DefaultPort_ModesSwapped(isSsl, isTls, arg) ==
    LET given == arg # None /\ arg[1] # 0
    IN IF isSsl THEN (IF given THEN arg[1] ELSE 587)
       ELSE IF isTls THEN (IF given THEN arg[1] ELSE 465)
       ELSE (IF given THEN arg[1] ELSE 25)

\* SMTPMailer.__init__: the port
DefaultPort(isSsl, isTls, arg) ==
    LET given == arg # None /\ arg[1] # 0
    IN IF isSsl THEN (IF given THEN arg[1] ELSE 465)
       ELSE IF isTls THEN (IF given THEN arg[1] ELSE 587)
       ELSE (IF given THEN arg[1] ELSE 25)

\* connect() with the login issued before the STARTTLS upgrade
ConnectSteps_LoginBeforeStarttls ==
    <<IF ssl THEN "SMTP_SSL" ELSE "SMTP", "ehlo">>
    \o (IF TruthyStr(user) /\ TruthyStr(password) THEN <<"login">> ELSE <<>>)
    \o (IF tls THEN <<"starttls", "ehlo">> ELSE <<>>)

\* the commands connect() issues when none of them fails, in order
ConnectSteps ==
    <<IF ssl THEN "SMTP_SSL" ELSE "SMTP", "ehlo">>
    \o (IF tls THEN <<"starttls", "ehlo">> ELSE <<>>)
    \o (IF TruthyStr(user) /\ TruthyStr(password) THEN <<"login">> ELSE <<>>)

\* the sessions once self.client no longer refers to session `old`: a session
\* that is still open is closed by the collector's finalizer (gc) or stays open
Dropped(sess, old, gc) ==
    IF old # NoClient /\ gc /\ sess[old] = "open"
    THEN [sess EXCEPT ![old] = "closed"]
    ELSE sess

\* The result of a method on mailer state m: the new mailer state, the
\* methods and smtplib commands run in order, the error raised to the caller
\* (NoError: the method returned) and the error of the last smtplib command
\* (err), which differs from raised when the method swallowed it.
Result(m, trace, raised, err) ==
    [m |-> m, trace |-> trace, raised |-> raised, err |-> err]

\* connect() with connected set first, before the session is constructed
connect_FlagBeforeSession(m, failAt, outcome, gc) ==
    LET steps == ConnectSteps
        sid == Len(m.sessions) + 1
    IN IF failAt = 1
       THEN Result([m EXCEPT !.connected = TRUE], <<steps[1]>>,
                   ErrorOf(outcome), ErrorOf(outcome))
       ELSE Result([connected |-> TRUE, client |-> sid,
                    sessions |-> Append(Dropped(m.sessions, m.client, gc),
                                        SessionAfter(outcome))],
                   IF failAt = 0 THEN steps ELSE SubSeq(steps, 1, failAt),
                   ErrorOf(outcome), ErrorOf(outcome))

\* connect() with connected set as soon as the session is open, before the
\* handshake and the login
connect_FlagBeforeHandshake(m, failAt, outcome, gc) ==
    LET steps == ConnectSteps
        sid == Len(m.sessions) + 1
    IN IF failAt = 1
       THEN Result(m, <<steps[1]>>, ErrorOf(outcome), ErrorOf(outcome))
       ELSE Result([connected |-> TRUE, client |-> sid,
                    sessions |-> Append(Dropped(m.sessions, m.client, gc),
                                        SessionAfter(outcome))],
                   IF failAt = 0 THEN steps ELSE SubSeq(steps, 1, failAt),
                   ErrorOf(outcome), ErrorOf(outcome))

\* connect() that takes up the session self.client already refers to instead
\* of opening one
connect_ReuseClient(m, failAt, outcome, gc) ==
    LET steps == ConnectSteps
        sid == Len(m.sessions) + 1
    IN IF failAt = 1
       THEN Result(m, <<steps[1]>>, ErrorOf(outcome), ErrorOf(outcome))
       ELSE IF failAt = 0
       THEN IF m.client # NoClient
            THEN Result([m EXCEPT !.connected = TRUE], <<>>, NoError, NoError)
            ELSE Result([connected |-> TRUE, client |-> sid,
                         sessions |-> Append(m.sessions, "open")],
                        steps, NoError, NoError)
       ELSE Result([connected |-> m.connected, client |-> sid,
                    sessions |-> Append(Dropped(m.sessions, m.client, gc),
                                        SessionAfter(outcome))],
                   SubSeq(steps, 1, failAt), ErrorOf(outcome), ErrorOf(outcome))

\* SMTPMailer.connect on mailer state m. failAt = 0: every step succeeds;
\* failAt = k: step k of ConnectSteps raises with the given outcome. The
\* constructor (step 1) leaves no session behind when it raises, and then
\* self.client is not assigned.
connect(m, failAt, outcome, gc) ==
    LET steps == ConnectSteps
        sid == Len(m.sessions) + 1
    IN IF failAt = 1
       THEN Result(m, <<steps[1]>>, ErrorOf(outcome), ErrorOf(outcome))
       ELSE IF failAt = 0
       THEN Result([connected |-> TRUE, client |-> sid,
                    sessions |-> Append(Dropped(m.sessions, m.client, gc), "open")],
                   steps, NoError, NoError)
       ELSE Result([connected |-> m.connected, client |-> sid,
                    sessions |-> Append(Dropped(m.sessions, m.client, gc),
                                        SessionAfter(outcome))],
                   SubSeq(steps, 1, failAt), ErrorOf(outcome), ErrorOf(outcome))

\* the choices of connect() in mailer state m: which step fails, how, and what
\* the collector does with an open session that self.client no longer refers to
ConnectChoices(m) ==
    {c \in [failAt : 0..Len(ConnectSteps), outcome : Outcomes, gc : BOOLEAN] :
        /\ (c.failAt = 0) <=> (c.outcome = "ok")
        /\ c.failAt = 1 => c.outcome # "error_open"
        /\ c.gc => (c.failAt # 1 /\ m.client # NoClient /\ m.sessions[m.client] = "open")}

\* close() without the except clause: every error of quit() is raised
close_NoExcept(m, q) ==
    IF m.connected /\ m.client # NoClient
    THEN LET after == [m.sessions EXCEPT ![m.client] =
                          IF q = "error_open" THEN "open" ELSE "closed"]
         IN IF q = "ok"
            THEN Result([m EXCEPT !.connected = FALSE, !.sessions = after],
                        <<"quit">>, NoError, NoError)
            ELSE Result([m EXCEPT !.sessions = after], <<"quit">>, ErrorOf(q), ErrorOf(q))
    ELSE Result([m EXCEPT !.connected = FALSE], <<>>, NoError, NoError)

\* SMTPMailer.close on mailer state m; q is how client.quit() ends
close(m, q) ==
    IF m.connected
    THEN IF m.client = NoClient
         THEN Result(m, <<>>, "AttributeError", NoError)
         ELSE LET after == [m.sessions EXCEPT ![m.client] =
                               IF q = "error_open" THEN "open" ELSE "closed"]
              IN IF ErrorOf(q) \in {NoError, "SMTPServerDisconnected"}
                 THEN Result([m EXCEPT !.connected = FALSE, !.sessions = after],
                             <<"quit">>, NoError, ErrorOf(q))
                 ELSE Result([m EXCEPT !.sessions = after],
                             <<"quit">>, ErrorOf(q), ErrorOf(q))
    ELSE Result([m EXCEPT !.connected = FALSE], <<>>, NoError, NoError)

\* the ways client.quit() can end when close() is called in mailer state m
QuitChoices(m) ==
    IF m.connected /\ m.client # NoClient
    THEN {q \in Outcomes : Possible(m, q)}
    ELSE {"ok"}

\* self.client.send_message(...) on mailer state m; t is how it ends
send_message(m, t) ==
    IF m.client = NoClient
    THEN Result(m, <<>>, "AttributeError", NoError)
    ELSE Result([m EXCEPT !.sessions[m.client] = IF t = "ok" THEN @ ELSE SessionAfter(t)],
                <<"send_message">>, ErrorOf(t), ErrorOf(t))

\* send() without the connect-on-demand of lines 127-128
send_NoConnect(m, c, t) ==
    send_message(m, t)

\* send() that transmits a second time when the transmission fails
send_Retry(m, c, t) ==
    LET conn == IF ~m.connected
                THEN LET r == connect(m, c.failAt, c.outcome, c.gc)
                     IN [r EXCEPT !.trace = <<"connect">> \o @]
                ELSE Result(m, <<>>, NoError, NoError)
    IN IF conn.raised # NoError THEN conn
       ELSE LET tx == send_message(conn.m, t)
            IN [tx EXCEPT !.trace = conn.trace \o @
                              \o (IF tx.raised # NoError /\ tx.trace # <<>>
                                  THEN <<"send_message">> ELSE <<>>)]

\* SMTPMailer.send, lines 127-129, on mailer state m: c are the choices of the
\* implicit connect(), t is how the transmission ends
send(m, c, t) ==
    LET conn == IF ~m.connected
                THEN LET r == connect(m, c.failAt, c.outcome, c.gc)
                     IN [r EXCEPT !.trace = <<"connect">> \o @]
                ELSE Result(m, <<>>, NoError, NoError)
    IN IF conn.raised # NoError THEN conn
       ELSE LET tx == send_message(conn.m, t)
            IN [tx EXCEPT !.trace = conn.trace \o @]

\* __exit__ that returns True: the error of the with-block is suppressed
exit_ReturnsTrue(m, exc, q) ==
    LET r == close(m, q)
    IN [m |-> r.m, trace |-> <<"close">> \o r.trace,
        raised |-> r.raised,
        err |-> r.err,
        context |-> IF r.raised # NoError THEN exc ELSE NoError]

\* SMTPMailer.__exit__ on mailer state m: exc is the error that ended the
\* with-block (NoError: it ended normally), q is how client.quit() ends.
\* close() runs; when it raises, its error replaces exc, which becomes its
\* context; otherwise False is returned and exc is raised again.
exit(m, exc, q) ==
    LET r == close(m, q)
    IN [m |-> r.m, trace |-> <<"close">> \o r.trace,
        raised |-> IF r.raised # NoError THEN r.raised ELSE exc,
        err |-> r.err,
        context |-> IF r.raised # NoError THEN exc ELSE NoError]

NoConnect == [failAt |-> 0, outcome |-> "ok", gc |-> FALSE]

\* the choices of send() in mailer state m: those of the implicit connect()
\* when there is one, and how the transmission ends when it is reached
SendChoices(m) ==
    {x \in [c : IF m.connected THEN {NoConnect} ELSE ConnectChoices(m), t : Outcomes] :
        /\ x.c.failAt # 0 => x.t = "ok"
        /\ x.c.failAt = 0 => Possible(send(m, x.c, "ok").m, x.t)}

----------------------------------------------------------------------------
(* The caller's calls *)

\* what the caller observes of one call: the method called, connected and
\* prepared before it, the methods and smtplib commands it ran in order (for
\* attach: the filename it was given), the
\* error it raised (NoError: it returned), the error of its last smtplib
\* command (err) and, for __exit__, the error that ended the with-block (exc)
\* and the error that the raised one replaced (context)
Call(op, trace, raised, err, exc, context) ==
    [op |-> op, conn0 |-> connected, prep0 |-> prepared, trace |-> trace,
     raised |-> raised, err |-> err, exc |-> exc, context |-> context]

SetMailer(m) ==
    /\ connected' = m.connected
    /\ client' = m.client
    /\ sessions' = m.sessions

SetPrepared(p) ==
    /\ text' = p.text
    /\ html' = p.html
    /\ message' = p.message
    /\ prepared' = p.prepared

\* mailer.connect()
Connect ==
    /\ Len(sessions) < MaxSessions
    /\ \E c \in ConnectChoices(Mailer) :
         LET r == connect(Mailer, c.failAt, c.outcome, c.gc)
         IN /\ SetMailer(r.m)
            /\ last' = Call("connect", r.trace, r.raised, r.err, NoError, NoError)
    /\ UNCHANGED <<configVars, messageVars, scope>>

\* mailer.close()
Close ==
    /\ \E q \in QuitChoices(Mailer) :
         LET r == close(Mailer, q)
         IN /\ SetMailer(r.m)
            /\ last' = Call("close", r.trace, r.raised, r.err, NoError, NoError)
    /\ UNCHANGED <<configVars, messageVars, scope>>

\* mailer.send(message)
Send ==
    /\ ~connected => Len(sessions) < MaxSessions
    /\ \E x \in SendChoices(Mailer) :
         LET p == IF ~prepared THEN prepare
                  ELSE [text |-> text, html |-> html, message |-> message,
                        prepared |-> prepared]
             r == send(Mailer, x.c, x.t)
         IN /\ SetPrepared(p)
            /\ SetMailer(r.m)
            /\ last' = Call("send",
                            (IF ~prepared THEN <<"prepare">> ELSE <<>>) \o r.trace,
                            r.raised, r.err, NoError, NoError)
    /\ UNCHANGED <<configVars, fieldVars, attachments, scope>>

\* `with mailer:` is entered: __enter__ returns self
Enter ==
    /\ scope = "out"
    /\ scope' = "in"
    /\ last' = Call("enter", <<>>, NoError, NoError, NoError, NoError)
    /\ UNCHANGED <<mailerVars, sessions, messageVars>>

\* the with-block ends, normally (exc = NoError) or by an error, and __exit__
\* runs: it calls close() and returns False, so exc is raised again unless
\* close() itself raised
Exit ==
    /\ scope = "in"
    /\ scope' = "out"
    /\ \E exc \in {NoError, "BodyError"}, q \in QuitChoices(Mailer) :
         LET r == exit(Mailer, exc, q)
         IN /\ SetMailer(r.m)
            /\ last' = Call("exit", r.trace, r.raised, r.err, exc, r.context)
    /\ UNCHANGED <<configVars, messageVars>>

\* message.prepare()
Prepare ==
    /\ Len(message.parts) < MaxParts
    /\ SetPrepared(prepare)
    /\ last' = Call("prepare", <<>>, NoError, NoError, NoError, NoError)
    /\ UNCHANGED <<mailerVars, sessions, fieldVars, attachments, scope>>

\* message.attach(data, filename, mimetype)
Attach ==
    /\ Len(message.parts) < MaxParts
    /\ \E filename \in {"report.pdf", "a.tar.gz", "data.bin"},
          mimetype \in {None, Some("text/plain")} :
         LET a == attach("data", filename, mimetype)
         IN /\ message' = a.message
            /\ attachments' = a.attachments
            /\ last' = Call("attach", <<filename>>, NoError, NoError, NoError, NoError)
    /\ UNCHANGED <<mailerVars, sessions, fieldVars, text, html, prepared, scope>>

\* str(message)
Str ==
    /\ ~prepared => Len(message.parts) < MaxParts
    /\ IF ~prepared THEN SetPrepared(prepare)
       ELSE UNCHANGED <<text, html, message, prepared>>
    /\ last' = Call("str", IF ~prepared THEN <<"prepare">> ELSE <<>>,
                    NoError, NoError, NoError, NoError)
    /\ UNCHANGED <<mailerVars, sessions, fieldVars, attachments, scope>>

----------------------------------------------------------------------------
(* Construction *)

NoCall ==
    [op |-> "init", conn0 |-> FALSE, prep0 |-> FALSE, trace |-> <<>>,
     raised |-> NoError, err |-> NoError, exc |-> NoError, context |-> NoError]

\* SMTPMailer.__init__
MailerInit(sslArgs, tlsArgs, portArgs, userArgs, passwordArgs) ==
    /\ ssl \in sslArgs
    /\ tls \in tlsArgs
    /\ portArg \in portArgs
    /\ port = DefaultPort(ssl, tls, portArg)
    /\ user \in userArgs
    /\ password \in passwordArgs
    /\ connected = FALSE
    /\ client = NoClient
    /\ sessions = <<>>

\* Message.__init__
MessageInit(subjects, authorss, ccs, bccs, replyTos, headerss, texts, htmls, overrides) ==
    /\ \E s \in subjects : subject = OrStr(s, "")
    /\ sender = <<"tuple", "A", "a@x.com">>
    /\ receivers = <<"list", << <<"str", "b@y.com">> >> >>
    /\ authors \in authorss
    /\ cc \in ccs
    /\ bcc \in bccs
    /\ headers \in headerss
    /\ reply_to \in replyTos
    /\ \E t \in texts : text = OrStr(t, "")
    /\ \E h \in htmls : html = OrStr(h, "")
    /\ attachments = <<>>
    /\ prepared_message \in overrides
    /\ prepared = FALSE
    /\ message = NewMixed

\* a mailer of any mode and any credentials, and one plain-text message
Init ==
    /\ MailerInit(BOOLEAN, BOOLEAN, {None},
                  {None, Some(""), Some("u")}, {None, Some(""), Some("p")})
    /\ MessageInit({Some("Hi")}, {None}, {None}, {None}, {None}, {None},
                   {Some("Body")}, {None}, {None})
    /\ scope = "out"
    /\ last = NoCall

Next ==
    \/ Connect
    \/ Close
    \/ Send
    \/ Enter
    \/ Exit

Spec == Init /\ [][Next]_vars

\* one plain mailer, and a message with a cc list and a custom header, with
\* text, html, both or neither, and with no, an empty or a non-empty override
MsgInit ==
    /\ MailerInit({FALSE}, {FALSE}, {None}, {None}, {None})
    /\ MessageInit({Some("Hi")}, {None}, {Some(<< <<"str", "c@z.com">> >>)}, {None}, {None},
                   {Some(<< <<"X-Tag", "t">> >>)},
                   {Some("Body"), None}, {None, Some("<p>Hi</p>"), Some("<br>")},
                   {None, Some(""), Some("raw")})
    /\ scope = "out"
    /\ last = NoCall

\* a mailer of any mode without credentials, constructed with no port, with
\* port 0 or with port 2525, and one plain-text message
PortInit ==
    /\ MailerInit(BOOLEAN, BOOLEAN, {None, Some(0), Some(2525)}, {None}, {None})
    /\ MessageInit({Some("Hi")}, {None}, {None}, {None}, {None}, {None},
                   {Some("Body")}, {None}, {None})
    /\ scope = "out"
    /\ last = NoCall

PortSpec == PortInit /\ [][Next]_vars

\* messages without override whose authors, cc, bcc and reply_to are absent,
\* empty or given, with and without a custom header
HdrInit ==
    /\ MailerInit({FALSE}, {FALSE}, {None}, {None}, {None})
    /\ MessageInit({Some("Hi")},
                   {None, Some(<<>>), Some(<< <<"tuple", "Doe, J", "j@x.com">>, <<"str", "c@z.com">> >>)},
                   {None, Some(<<>>), Some(<< <<"str", "c@z.com">> >>)},
                   {None, Some(<<>>), Some(<< <<"tuple", "D", "d@z.com">> >>)},
                   {None, Some(<<>>), Some(<< <<"str", "r@x.com">> >>)},
                   {None, Some(<< <<"X-Tag", "t">> >>)},
                   {Some("Body")}, {None}, {None})
    /\ scope = "out"
    /\ last = NoCall

MsgNext ==
    \/ Attach
    \/ Prepare
    \/ Str

MsgSpec == MsgInit /\ [][MsgNext]_vars

HdrSpec == HdrInit /\ [][MsgNext]_vars


----------------------------------------------------------------------------
(* Properties *)

\* the positions of x in the trace of call c
Positions(c, x) == {i \in DOMAIN c.trace : c.trace[i] = x}
Ran(c, x) == Positions(c, x) # {}

\* the filenames of the parts of doc from position `from` on
Filenames(doc, from) ==
    [i \in 1..(Len(doc.parts) - from + 1) |-> PartFilename(doc.parts[i + from - 1])]

\* the sessions that are open and not yet terminated
OpenSessions == {i \in DOMAIN sessions : sessions[i] = "open"}

\* C1: on a Message without a prepared override, after attach() calls
\* followed by the first prepare() (direct or through str()), the first child
\* of the mixed document is the alternative body and the attachment parts
\* follow it in the order they were attached.
C1_BodyIsFirstChild ==
    (last.op \in {"prepare", "str"} /\ ~last.prep0 /\ ~TruthyStr(prepared_message))
        => /\ Len(message.parts) = Len(attachments) + 1
           /\ IsBody(message.parts[1])
           /\ Filenames(message, 2) = attachments

\* C2: after close() on a connected Mailer, connected is false, however the
\* quit command ended.
C2_CloseAlwaysResets ==
    (last.op = "close" /\ last.conn0) => ~connected

\* C3: close() on a Mailer that is not connected raises nothing, issues no
\* command and leaves connected false; and a close() call that follows a
\* close() call changes nothing of the mailer.
C3_CloseIsIdempotent ==
    [][/\ (last'.op = "close" /\ ~connected)
            => (last'.raised = NoError /\ last'.trace = <<>> /\ ~connected'
                /\ client' = client /\ sessions' = sessions)
       /\ (last.op = "close" /\ last'.op = "close")
            => (last'.trace = <<>> /\ UNCHANGED <<connected, client, sessions>>)]_vars

\* C4: when quit raises SMTPServerDisconnected inside close(), close()
\* returns normally and connected is false.
C4_DisconnectedSwallowed ==
    (last.op = "close" /\ last.err = "SMTPServerDisconnected")
        => (last.raised = NoError /\ ~connected)

C4_Witness ==
    /\ last.op = "close"
    /\ last.conn0
    /\ last.trace = <<"quit">>
    /\ last.err = "SMTPServerDisconnected"


\* C5: send() prepares the message exactly when it is not prepared, then
\* connects exactly when the Mailer is not connected, and only then
\* transmits: a transmission happens once, last, with prepared and connected
\* both true; a prepared message keeps its document and a connected Mailer
\* keeps its session and opens no other.
C5_SendPreparesConnectsTransmits ==
    [][last'.op = "send" =>
         /\ Ran(last', "prepare") <=> ~prepared
         /\ Ran(last', "connect") <=> ~connected
         /\ Ran(last', "prepare") => last'.trace[1] = "prepare"
         /\ Ran(last', "connect") => Positions(last', "connect") \subseteq {1, 2}
         /\ Ran(last', "send_message")
              => /\ Positions(last', "send_message") = {Len(last'.trace)}
                 /\ prepared'
                 /\ connected'
         /\ prepared => UNCHANGED <<text, html, message, prepared>>
         /\ connected => /\ client' = client
                         /\ Len(sessions') = Len(sessions)
                         /\ last'.trace \in {<<"send_message">>, <<"prepare", "send_message">>}
      ]_vars

C5_Witness ==
    /\ last.op = "send"
    /\ ~last.prep0
    /\ ~last.conn0
    /\ Ran(last, "send_message")
    /\ last.raised = NoError

\* C6 as claimed: __exit__ runs close(), and an error raised inside the
\* with-block is the error that reaches the caller.
C6_ScopeErrorReachesCaller ==
    last.op = "exit"
        => /\ last.trace[1] = "close"
           /\ last.exc # NoError => last.raised = last.exc

\* C6 as amended: __exit__ runs close() on every exit path (so quit is sent
\* when the Mailer is connected); when close() returns, the error raised
\* inside the with-block, if any, reaches the caller and a normal exit stays
\* normal; when close() itself raises (quit failed with an error other than
\* SMTPServerDisconnected), that error reaches the caller instead, with the
\* error of the with-block as its context.
C6_ExitClosesAndDoesNotSuppress ==
    last.op = "exit"
        => /\ last.trace[1] = "close"
           /\ last.conn0 <=> Ran(last, "quit")
           /\ IF last.err \in {NoError, "SMTPServerDisconnected"}
              THEN last.raised = last.exc /\ last.context = NoError /\ ~connected
              ELSE last.raised = last.err /\ last.context = last.exc

C6_Witness ==
    /\ last.op = "exit"
    /\ last.conn0
    /\ last.exc = "BodyError"
    /\ last.raised = "BodyError"
    /\ Ran(last, "quit")

\* C7: when the transmission of send() fails, the error reaches the caller
\* as raised, send_message ran once, the message is prepared with the
\* document it had when it was transmitted, and the Mailer is still connected
\* to the same session.
C7_TransmitFailurePropagates ==
    [][(last'.op = "send" /\ Ran(last', "send_message") /\ last'.err # NoError) =>
         /\ last'.raised = last'.err
         /\ Cardinality(Positions(last', "send_message")) = 1
         /\ prepared'
         /\ message' = IF prepared THEN message ELSE prepare.message
         /\ connected'
         /\ connected => client' = client
      ]_vars

C7_Witness ==
    /\ last.op = "send"
    /\ last.prep0
    /\ last.conn0
    /\ Ran(last, "send_message")
    /\ last.raised = "SMTPResponseException"
    /\ prepared
    /\ connected

\* the call c ran connect(), directly or from send(), and connect() raised
ConnectFailed(c) ==
    \/ c.op = "connect" /\ c.raised # NoError
    \/ c.op = "send" /\ Ran(c, "connect") /\ ~Ran(c, "send_message") /\ c.raised # NoError

\* C8: connected becomes true only by a connect() whose steps all succeeded;
\* when a step of connect() fails the error reaches the caller, no step ran
\* twice, nothing is transmitted, and connected is left as it was: false when
\* it was false.
C8_ConnectedOnlyOnSuccess ==
    [][/\ ConnectFailed(last')
            => /\ last'.raised = last'.err
               /\ connected' = connected
               /\ ~Ran(last', "send_message")
               /\ Cardinality(Positions(last', "SMTP") \cup Positions(last', "SMTP_SSL")) = 1
               /\ Cardinality(Positions(last', "starttls")) <= 1
               /\ Cardinality(Positions(last', "login")) <= 1
               /\ Cardinality(Positions(last', "ehlo")) <= (IF tls THEN 2 ELSE 1)
       /\ (~connected /\ connected')
            => /\ last'.op \in {"connect", "send"}
               /\ ~ConnectFailed(last')
               /\ client' = Len(sessions')
               /\ Len(sessions') = Len(sessions) + 1
      ]_vars

C8_Witness ==
    /\ last.op = "send"
    /\ ConnectFailed(last)
    /\ last.trace[Len(last.trace)] = "login"
    /\ ~connected

\* "supplied (non-empty)"
Supplied(o) == o # None /\ o # Some("")

\* the protocol steps of C9, in order
C9_Order ==
    <<IF ssl THEN "SMTP_SSL" ELSE "SMTP">> \o <<"ehlo">>
    \o (IF tls THEN <<"starttls", "ehlo">> ELSE <<>>)
    \o (IF Supplied(user) /\ Supplied(password) THEN <<"login">> ELSE <<>>)

\* the steps connect() ran in call c
ConnectTrace(c) ==
    IF c.op = "connect" THEN c.trace
    ELSE LET k == CHOOSE i \in Positions(c, "connect") : TRUE
             n == IF Ran(c, "send_message") THEN Len(c.trace) - 1 ELSE Len(c.trace)
         IN SubSeq(c.trace, k + 1, n)

\* C9: the steps connect() runs are a prefix of: open (TLS-wrapped exactly in
\* implicit-TLS mode), EHLO, STARTTLS and EHLO exactly in STARTTLS mode,
\* login exactly when user and password are both supplied; and all of them
\* when connect() succeeds, which is when connected becomes true.
C9_ConnectOrder ==
    (last.op = "connect" \/ (last.op = "send" /\ Ran(last, "connect")))
        => LET t == ConnectTrace(last)
           IN /\ Len(t) >= 1
              /\ Len(t) <= Len(C9_Order)
              /\ t = SubSeq(C9_Order, 1, Len(t))
              /\ ~ConnectFailed(last) => (t = C9_Order /\ connected)
              /\ ConnectFailed(last) => (connected = last.conn0)

C9_Witness ==
    /\ last.op = "connect"
    /\ tls
    /\ last.trace = <<"SMTP", "ehlo", "starttls", "ehlo", "login">>
    /\ connected

\* C10: at most one session opened by the Mailer is open and not terminated.
C10_AtMostOneOpenSession ==
    Cardinality(OpenSessions) <= 1

\* C11 as claimed: once close() has been called on a connected Mailer and
\* has left it closed, the next operation does not make connected true again.
C11_ClosedIsTerminal ==
    [][(last.op = "close" /\ last.conn0 /\ ~connected) => ~connected']_vars

\* C11 as amended: the lifecycle is UNCONNECTED -> CONNECTED -> CLOSED, and
\* CLOSED is not terminal: close() and __exit__ never make connected true,
\* and connected becomes true, also after a close(), exactly by a connect()
\* or send() that opens a new session and completes its connect steps.
C11_ReconnectOpensNewSession ==
    [][/\ last'.op \in {"close", "exit", "enter"} => (connected' => connected)
       /\ (~connected /\ connected')
            => /\ last'.op \in {"connect", "send"}
               /\ Len(sessions') = Len(sessions) + 1
               /\ client' = Len(sessions')
               /\ client' # client
               /\ ConnectTrace(last') = ConnectSteps
      ]_vars

C11_Witness ==
    /\ last.op \in {"connect", "send"}
    /\ ~last.conn0
    /\ connected
    /\ Len(sessions) = 2
    /\ sessions[1] = "closed"
    /\ client = 2

\* C12: prepare() on a Message that is already prepared, called directly or
\* through str(), leaves the document as it is, so that no header and no body
\* part is added a second time; and prepared never goes back to false.
C12_PrepareIsIdempotent ==
    [][/\ prepared => prepared'
       /\ (prepared /\ last'.op \in {"prepare", "str"}) => message' = message
      ]_vars

C14_AttachmentsInCallOrder ==
    [][~TruthyStr(prepared_message) =>
         /\ last'.op = "attach" => attachments' = Append(attachments, last'.trace[1])
         /\ last'.op \in {"prepare", "str"} => attachments' = attachments
      ]_vars

C14_Witness ==
    /\ prepared_message = None
    /\ last.op = "prepare"
    /\ attachments = <<"report.pdf", "data.bin">>

\* C15 as claimed: without a port the Mailer has port 465 when ssl is true,
\* 587 when tls is true and 25 when neither is set; a port supplied by the
\* caller is the port of the Mailer.
C15_DefaultPorts ==
    /\ (portArg = None /\ ssl) => port = 465
    /\ (portArg = None /\ tls) => port = 587
    /\ (portArg = None /\ ~ssl /\ ~tls) => port = 25
    /\ portArg # None => port = portArg[1]

\* C15 as amended: a port other than 0 supplied by the caller is the port of
\* the Mailer; without one (no port, or port 0) the port is 465 when ssl is
\* true, whatever tls is, 587 when tls is true and ssl is not, and 25 when
\* neither is set.
C15_DefaultPortsSslFirst ==
    IF portArg # None /\ portArg # Some(0)
    THEN port = portArg[1]
    ELSE /\ ssl => port = 465
         /\ (tls /\ ~ssl) => port = 587
         /\ (~ssl /\ ~tls) => port = 25

C15_Witness ==
    /\ portArg = None
    /\ tls
    /\ ~ssl
    /\ port = 587
    /\ connected

HeaderValues(doc, key) ==
    LET Named(h) == h[1] = key
        sel == SelectSeq(doc.headers, Named)
    IN [i \in 1..Len(sel) |-> sel[i][2]]

BuiltHeaders == {"Sender", "From", "To", "Subject", "CC", "BCC", "Reply-To", "X-Tag"}

C19_FlagTracksSession ==
    /\ OpenSessions # {} => connected
    /\ (last.op = "close" /\ last.raised = NoError) => OpenSessions = {}

\* C20: in every reachable state connected implies that self.client is set,
\* and no call has failed for using a missing client (AttributeError on None).
C20_ConnectedHasClient ==
    /\ connected => client # NoClient
    /\ last.raised # "AttributeError"

C20_Witness ==
    /\ last.op = "close"
    /\ last.conn0
    /\ Ran(last, "quit")
    /\ last.raised = NoError
    /\ client = 2
    /\ sessions = <<"closed", "closed">>

====
